---------------------------- MODULE Spec2Model ----------------------------
(***************************************************************************)
(* Model of dashboard/app.py, the "Recupera Credito" Streamlit script.     *)
(*                                                                         *)
(* The script is executed top to bottom on every run of a session: load    *)
(* the data, validate the columns, compute prob_recuperacao, read the      *)
(* score slider and filter, compute the KPIs, draw the charts, show the    *)
(* table.  Moving the slider reruns the script from its first line with    *)
(* the slider's new value kept as widget state.                            *)
(*                                                                         *)
(* Numbers.  pandas holds the columns as float64/int64.  A number is       *)
(* modelled as a pair <<n, d>>:                                            *)
(*     d > 0    the rational n/d in lowest terms                           *)
(*     <<1,0>>  +inf      <<-1,0>>  -inf      <<0,0>>  NaN                 *)
(* so that a missing cell (NaN), a division by zero and the clamping of    *)
(* clip() behave as they do in the code.  Rounding of float64 is not       *)
(* modelled: the arithmetic is exact.                                      *)
(*                                                                         *)
(* An exception that the script does not catch ends the run: pc "crashed". *)
(* st.stop() ends it too: pc "stopped".  The file that a session reads     *)
(* stays the same for the whole session, and the slider is moved between   *)
(* runs, not during one.                                                   *)
(***************************************************************************)
EXTENDS Integers, Sequences, FiniteSets, TLC

VARIABLES
    uploaded_file,          \* the file given to the uploader (status "none": no file)
    default_csv,            \* data/dados_credito.csv: missing, unreadable, or a csv
    pc,                     \* the section of the script that runs next
    df,                     \* the DataFrame: a sequence of rows (column -> number)
    columns,                \* df.columns
    max_dias,               \* line 98
    widget,                 \* the slider's session state: NoValue or <<low, high>>
    slider_domain,          \* the slider's (min_value, max_value)
    score_range,            \* the slider's value in this run
    df_filtrado,            \* line 116, and faixa_score after line 171
    columns_filtrado,       \* df_filtrado.columns
    total_clientes,         \* line 125
    divida_media,           \* line 135
    clientes_recuperaveis,  \* line 141
    divida_por_faixa,       \* line 177
    screen,                 \* what this run has put on the page
    erro,                   \* the column named by st.error, or NoColumn
    df_scored               \* history: df and its columns as the first run's scoring left them

vars == <<uploaded_file, default_csv, pc, df, columns, max_dias, widget,
          slider_domain, score_range, df_filtrado, columns_filtrado,
          total_clientes, divida_media, clientes_recuperaveis,
          divida_por_faixa, screen, erro, df_scored>>

----------------------------------------------------------------------------
(* float64 arithmetic *)

Abs(n) == IF n < 0 THEN -n ELSE n

Sign(n) == IF n < 0 THEN -1 ELSE IF n > 0 THEN 1 ELSE 0

RECURSIVE GCD(_, _)
GCD(a, b) == IF b = 0 THEN a ELSE GCD(b, a % b)

\* the number n/d: lowest terms, positive denominator; n/0 is +inf, -inf or NaN
Rat(n, d) ==
    IF d = 0 THEN <<Sign(n), 0>>
    ELSE LET g == GCD(Abs(n), Abs(d))
             s == IF d < 0 THEN -1 ELSE 1
         IN  <<(s * n) \div g, (s * d) \div g>>

Num(k) == <<k, 1>>

NaN == <<0, 0>>

IsNaN(x) == x = NaN

IsFinite(x) == x[2] # 0

\* x * y
Mul(x, y) == Rat(x[1] * y[1], x[2] * y[2])

\* x - y
Sub(x, y) ==
    IF IsFinite(x) /\ IsFinite(y) THEN Rat(x[1] * y[2] - y[1] * x[2], x[2] * y[2])
    ELSE IF IsNaN(x) \/ IsNaN(y) THEN NaN
    ELSE IF IsFinite(x) THEN <<-y[1], 0>>
    ELSE IF IsFinite(y) THEN x
    ELSE IF x = y THEN NaN ELSE x

\* x + y
Add(x, y) == Sub(x, <<-y[1], y[2]>>)

\* x / y
Div(x, y) ==
    IF IsNaN(x) \/ IsNaN(y) THEN NaN
    ELSE IF IsFinite(x) /\ IsFinite(y) THEN Rat(x[1] * y[2], x[2] * y[1])
    ELSE IF IsFinite(x) THEN Num(0)
    ELSE IF IsFinite(y) THEN <<IF y[1] < 0 THEN -x[1] ELSE x[1], 0>>
    ELSE NaN

\* x <= y; every comparison with NaN is false
Le(x, y) ==
    /\ ~IsNaN(x)
    /\ ~IsNaN(y)
    /\ IF IsFinite(x) /\ IsFinite(y) THEN x[1] * y[2] <= y[1] * x[2]
       ELSE IF IsFinite(x) THEN y[1] > 0
       ELSE IF IsFinite(y) THEN x[1] < 0
       ELSE x[1] <= y[1]

\* x >= y
Ge(x, y) == Le(y, x)

\* x < y
Lt(x, y) == Le(x, y) /\ x # y

\* Python's truth value of a number: only zero is false, NaN is true
Truthy(x) == x # Num(0)

\* Python's  x or y
Or(x, y) == IF Truthy(x) THEN x ELSE y

\* mutant of Clip: the upper bound is forgotten
ClipLowerOnly(x, lower, upper) ==
    IF IsNaN(x) THEN NaN
    ELSE IF Lt(x, lower) THEN lower
    ELSE x

\* Series.clip(lower, upper): NaN stays NaN
Clip(x, lower, upper) ==
    IF IsNaN(x) THEN NaN
    ELSE IF Lt(x, lower) THEN lower
    ELSE IF Lt(upper, x) THEN upper
    ELSE x

\* Python's int(x) of a finite number: truncation toward zero
IntOf(x) ==
    IF x[1] >= 0 THEN x[1] \div x[2] ELSE -((-x[1]) \div x[2])

----------------------------------------------------------------------------
(* pandas reductions over a column *)

Column(table, col) == [i \in 1..Len(table) |-> table[i][col]]

RECURSIVE MaxFrom(_, _, _)
MaxFrom(s, i, best) ==
    IF i > Len(s) THEN best
    ELSE MaxFrom(s, i + 1,
                 IF IsNaN(s[i]) THEN best
                 ELSE IF IsNaN(best) \/ Lt(best, s[i]) THEN s[i] ELSE best)

\* Series.max(): NaN cells are skipped; NaN when nothing is left
Max(s) == MaxFrom(s, 1, NaN)

RECURSIVE MinFrom(_, _, _)
MinFrom(s, i, best) ==
    IF i > Len(s) THEN best
    ELSE MinFrom(s, i + 1,
                 IF IsNaN(s[i]) THEN best
                 ELSE IF IsNaN(best) \/ Lt(s[i], best) THEN s[i] ELSE best)

\* Series.min()
Min(s) == MinFrom(s, 1, NaN)

RECURSIVE SumFrom(_, _)
SumFrom(s, i) ==
    IF i > Len(s) THEN Num(0)
    ELSE IF IsNaN(s[i]) THEN SumFrom(s, i + 1)
    ELSE Add(s[i], SumFrom(s, i + 1))

\* Series.sum(): NaN cells are skipped
Sum(s) == SumFrom(s, 1)

\* Series.count(): the cells that are not NaN
Count(s) == Cardinality({i \in 1..Len(s) : ~IsNaN(s[i])})

\* mutant of Mean: an empty column is given the mean 0
MeanZeroWhenEmpty(s) ==
    IF Count(s) = 0 THEN Num(0) ELSE Div(Sum(s), Num(Count(s)))

\* Series.mean(): NaN cells are skipped; NaN (0/0) when nothing is left
Mean(s) == Div(Sum(s), Num(Count(s)))

----------------------------------------------------------------------------
(* the steps of the script, as functions of the table *)

RequiredColumns == <<"score_credito", "dias_atraso", "valor_divida">>

Derived == "prob_recuperacao"

Band == "faixa_score"

\* df[col] = values: the column is added, or overwritten when it is there
Assign(table, col, values) ==
    [i \in 1..Len(table) |->
        [c \in (DOMAIN table[i]) \cup {col} |->
            IF c = col THEN values[i] ELSE table[i][c]]]

\* mutant of Missing: the loop ends one column early
MissingFirstTwo(cols) ==
    SelectSeq(SubSeq(RequiredColumns, 1, 2), LAMBDA c : c \notin cols)

\* lines 92-95: the required columns that df lacks, in the order of the loop
Missing(cols) == SelectSeq(RequiredColumns, LAMBDA c : c \notin cols)

\* line 98
MaxDias(table) == Or(Max(Column(table, "dias_atraso")), Num(1))

\* lines 100-103, one row
Prob(row, m) ==
    Clip(Mul(Div(row["score_credito"], Num(1000)),
             Sub(Num(1), Div(row["dias_atraso"], m))),
         Num(0), Num(1))

\* mutant of Score: the score is rescaled in place before it is used
ScoreInPlace(table, m) ==
    Assign(Assign(table, "score_credito",
                  [i \in 1..Len(table) |-> Div(table[i]["score_credito"], Num(1000))]),
           Derived, [i \in 1..Len(table) |-> Prob(table[i], m)])

\* lines 100-103
Score(table, m) ==
    Assign(table, Derived, [i \in 1..Len(table) |-> Prob(table[i], m)])

\* mutant of Between: the ends are left out
BetweenExclusive(x, left, right) == Lt(left, x) /\ Lt(x, right)

\* Series.between(left, right), inclusive="both"
Between(x, left, right) == Ge(x, left) /\ Le(x, right)

\* line 116
Filter(table, range) ==
    SelectSeq(table, LAMBDA row :
        Between(row["score_credito"], Num(range[1]), Num(range[2])))

\* line 141
Threshold == Rat(6, 10)

\* mutant of Recuperaveis: the threshold itself is not counted
RecuperaveisStrict(table) ==
    Cardinality({i \in 1..Len(table) : Lt(Threshold, table[i][Derived])})

Recuperaveis(table) ==
    Cardinality({i \in 1..Len(table) : Ge(table[i][Derived], Threshold)})

\* lines 173-174
Bins == <<0, 300, 500, 700, 1000>>

\* (the third label is written without its accent)
Labels == <<"Muito Baixo", "Baixo", "Medio", "Alto">>

\* pd.cut(x, bins), right=True, include_lowest=False: the code k of the
\* interval (Bins[k], Bins[k+1]] that holds x, NaN when none does
Cut(x) ==
    LET hit == {k \in 1..(Len(Bins) - 1) :
                   Lt(Num(Bins[k]), x) /\ Le(x, Num(Bins[k + 1]))}
    IN  IF hit = {} THEN NaN ELSE Num(CHOOSE k \in hit : TRUE)

\* lines 171-175
WithBand(table) ==
    Assign(table, Band, [i \in 1..Len(table) |-> Cut(table[i]["score_credito"])])

\* the rows of one band
InBand(table, k) == SelectSeq(table, LAMBDA row : row[Band] = Num(k))

\* lines 177-182: one row per band observed in the data, in the order of the
\* categories, with the band's total debt
GroupBySum(table) ==
    LET observed == SelectSeq([k \in 1..Len(Labels) |-> k],
                              LAMBDA k : InBand(table, k) # <<>>)
    IN  [j \in 1..Len(observed) |->
            [faixa_score  |-> Labels[observed[j]],
             valor_divida |-> Sum(Column(InBand(table, observed[j]), "valor_divida"))]]

----------------------------------------------------------------------------
(* the inputs *)

\* the longest csv the model reads, besides the fixed tables below
MaxRows == 2

ScoreValues == {NaN, Num(-50), Num(0), Num(600), Rat(1701, 2), Num(1200)}

DiasValues == {NaN, Num(-10), Num(0), Num(30)}

\* the debt of the i-th row of a generated csv
DebtOf(i) == Num(1000 * i)

CellValues(col, i) ==
    CASE col = "score_credito" -> ScoreValues
      [] col = "dias_atraso"   -> DiasValues
      [] col = "valor_divida"  -> {DebtOf(i)}

\* the rows a generated csv with the columns cols may have at position i
RowsAt(cols, i) ==
    {r \in [cols -> ScoreValues \cup DiasValues \cup {DebtOf(i)}] :
        \A c \in cols : r[c] \in CellValues(c, i)}

RECURSIVE TablesOfLen(_, _)
TablesOfLen(cols, n) ==
    IF n = 0 THEN {<<>>}
    ELSE {Append(t, r) : t \in TablesOfLen(cols, n - 1), r \in RowsAt(cols, n)}

\* the csv contents with the columns cols and at most MaxRows rows
Tables(cols) == UNION {TablesOfLen(cols, n) : n \in 0..MaxRows}

\* three whole columns of integers as a table
Frame(score, dias, valor) ==
    [i \in 1..Len(score) |->
        [c \in {"score_credito", "dias_atraso", "valor_divida"} |->
            CASE c = "score_credito" -> Num(score[i])
              [] c = "dias_atraso"   -> Num(dias[i])
              [] c = "valor_divida"  -> Num(valor[i])]]

\* the built-in sample of lines 83-87
SampleData ==
    Frame(<<850, 400, 300, 600, 720, 250>>,
          <<5, 90, 120, 30, 10, 150>>,
          <<1000, 5000, 12000, 2500, 800, 20000>>)

\* the three customers of the worked example
ExampleData ==
    Frame(<<850, 600, 250>>, <<5, 30, 150>>, <<1000, 2500, 20000>>)

\* a table saved from the dashboard and sent back: it already has the
\* derived column, here with values of an older run
ExportedData ==
    Assign(ExampleData, Derived, <<Rat(1, 2), Rat(1, 2), Rat(1, 2)>>)

\* a file: status "none" (no file given), "missing", "unreadable", or "ok"
\* with the header and the rows that read_csv returns
File(status, cols, rows) == [status |-> status, cols |-> cols, rows |-> rows]

AllRequired == {RequiredColumns[k] : k \in 1..Len(RequiredColumns)}

\* what the user may upload
Uploads ==
    {File("ok", cols, t) : cols \in {AllRequired}, t \in Tables(AllRequired)}
    \cup UNION {{File("ok", cols, t) : t \in Tables(cols)} :
                   cols \in (SUBSET AllRequired) \ {{}, AllRequired}}
    \cup {File("ok", AllRequired \cup {Derived}, ExportedData)}

\* what data/dados_credito.csv may be
Defaults ==
    {File("missing", {}, <<>>), File("unreadable", {}, <<>>),
     File("ok", AllRequired, ExampleData)}

NoValue == <<>>

NoColumn == ""

\* positions the user drags the slider's handles to, besides its two ends
SliderStops == {400}

----------------------------------------------------------------------------
(* the session *)

\* the script's own variables at the start of a run
Fresh ==
    /\ df' = <<>>
    /\ columns' = {}
    /\ max_dias' = NaN
    /\ slider_domain' = NoValue
    /\ score_range' = NoValue
    /\ df_filtrado' = <<>>
    /\ columns_filtrado' = {}
    /\ total_clientes' = 0
    /\ divida_media' = NaN
    /\ clientes_recuperaveis' = 0
    /\ divida_por_faixa' = <<>>
    /\ screen' = {}
    /\ erro' = NoColumn

Init ==
    /\ \/ uploaded_file = File("none", {}, <<>>) /\ default_csv \in Defaults
       \/ uploaded_file \in Uploads /\ default_csv = File("missing", {}, <<>>)
    /\ pc = "load"
    /\ df = <<>>
    /\ columns = {}
    /\ max_dias = NaN
    /\ widget = NoValue
    /\ slider_domain = NoValue
    /\ score_range = NoValue
    /\ df_filtrado = <<>>
    /\ columns_filtrado = {}
    /\ total_clientes = 0
    /\ divida_media = NaN
    /\ clientes_recuperaveis = 0
    /\ divida_por_faixa = <<>>
    /\ screen = {}
    /\ erro = NoColumn
    /\ df_scored = NoValue

\* lines 74-87
LoadData ==
    /\ pc = "load"
    /\ IF uploaded_file.status = "ok"
       THEN /\ df' = uploaded_file.rows
            /\ columns' = uploaded_file.cols
            /\ screen' = screen
            /\ pc' = "validate"
       ELSE IF default_csv.status = "ok"
       THEN /\ df' = default_csv.rows
            /\ columns' = default_csv.cols
            /\ screen' = screen
            /\ pc' = "validate"
       ELSE IF default_csv.status = "missing"
       THEN \* except FileNotFoundError
            /\ df' = SampleData
            /\ columns' = AllRequired
            /\ screen' = screen \cup {"warning"}
            /\ pc' = "validate"
       ELSE \* any other exception of read_csv is not caught
            /\ UNCHANGED <<df, columns, screen>>
            /\ pc' = "crashed"
    /\ UNCHANGED <<uploaded_file, default_csv, max_dias, widget, slider_domain,
                   score_range, df_filtrado, columns_filtrado, total_clientes,
                   divida_media, clientes_recuperaveis, divida_por_faixa, erro,
                   df_scored>>

\* lines 89-95
Validate ==
    /\ pc = "validate"
    /\ IF Missing(columns) # <<>>
       THEN /\ erro' = Head(Missing(columns))
            /\ screen' = screen \cup {"error"}
            /\ pc' = "stopped"
       ELSE /\ UNCHANGED <<erro, screen>>
            /\ pc' = "score"
    /\ UNCHANGED <<uploaded_file, default_csv, df, columns, max_dias, widget,
                   slider_domain, score_range, df_filtrado, columns_filtrado,
                   total_clientes, divida_media, clientes_recuperaveis,
                   divida_por_faixa, df_scored>>

\* lines 97-103
Probabilidade ==
    /\ pc = "score"
    /\ max_dias' = MaxDias(df)
    /\ df' = Score(df, max_dias')
    /\ columns' = columns \cup {Derived}
    /\ df_scored' = IF df_scored = NoValue THEN <<df', columns'>> ELSE df_scored
    /\ pc' = "filter"
    /\ UNCHANGED <<uploaded_file, default_csv, widget, slider_domain, score_range,
                   df_filtrado, columns_filtrado, total_clientes, divida_media,
                   clientes_recuperaveis, divida_por_faixa, screen, erro>>

\* lines 105-116.  int() of NaN raises ValueError: the run ends there.
Filtros ==
    /\ pc = "filter"
    /\ LET lo == Min(Column(df, "score_credito"))
           hi == Max(Column(df, "score_credito"))
       IN  IF IsNaN(lo) \/ IsNaN(hi)
           THEN /\ pc' = "crashed"
                /\ UNCHANGED <<slider_domain, score_range, df_filtrado,
                               columns_filtrado>>
           ELSE /\ slider_domain' = <<IntOf(lo), IntOf(hi)>>
                /\ score_range' = IF widget = NoValue THEN slider_domain' ELSE widget
                /\ df_filtrado' = Filter(df, score_range')
                /\ columns_filtrado' = columns
                /\ pc' = "kpis"
    /\ UNCHANGED <<uploaded_file, default_csv, df, columns, max_dias, widget,
                   total_clientes, divida_media, clientes_recuperaveis,
                   divida_por_faixa, screen, erro, df_scored>>

\* lines 118-150
KPIs ==
    /\ pc = "kpis"
    /\ total_clientes' = Len(df_filtrado)
    /\ divida_media' = Mean(Column(df_filtrado, "valor_divida"))
    /\ clientes_recuperaveis' = Recuperaveis(df_filtrado)
    /\ screen' = screen \cup {"kpis"}
    /\ pc' = "charts"
    /\ UNCHANGED <<uploaded_file, default_csv, df, columns, max_dias, widget,
                   slider_domain, score_range, df_filtrado, columns_filtrado,
                   divida_por_faixa, erro, df_scored>>

\* lines 152-195.  df_filtrado is a copy of the selected rows (boolean
\* indexing), so the new column goes to df_filtrado alone.
Graficos ==
    /\ pc = "charts"
    /\ IF df_filtrado # <<>>
       THEN /\ df_filtrado' = WithBand(df_filtrado)
            /\ columns_filtrado' = columns_filtrado \cup {Band}
            /\ divida_por_faixa' = GroupBySum(df_filtrado')
            /\ screen' = screen \cup {"histogram", "pie"}
       ELSE /\ UNCHANGED <<df_filtrado, columns_filtrado, divida_por_faixa>>
            /\ screen' = screen \cup {"info"}
    /\ pc' = "table"
    /\ UNCHANGED <<uploaded_file, default_csv, df, columns, max_dias, widget,
                   slider_domain, score_range, total_clientes, divida_media,
                   clientes_recuperaveis, erro, df_scored>>

\* lines 197-199
Tabela ==
    /\ pc = "table"
    /\ screen' = screen \cup {"dataframe"}
    /\ pc' = "done"
    /\ UNCHANGED <<uploaded_file, default_csv, df, columns, max_dias, widget,
                   slider_domain, score_range, df_filtrado, columns_filtrado,
                   total_clientes, divida_media, clientes_recuperaveis,
                   divida_por_faixa, erro, df_scored>>

\* the user moves the slider: the value is kept as widget state and the
\* script runs again from its first line
MoveSlider ==
    /\ pc = "done"
    /\ \E low \in {slider_domain[1]} \cup SliderStops,
          high \in SliderStops \cup {slider_domain[2]} :
          /\ slider_domain[1] <= low
          /\ low <= high
          /\ high <= slider_domain[2]
          /\ <<low, high>> # score_range
          /\ widget' = <<low, high>>
    /\ pc' = "load"
    /\ Fresh
    /\ UNCHANGED <<uploaded_file, default_csv, df_scored>>

Next ==
    \/ LoadData
    \/ Validate
    \/ Probabilidade
    \/ Filtros
    \/ KPIs
    \/ Graficos
    \/ Tabela
    \/ MoveSlider

Spec == Init /\ [][Next]_vars

----------------------------------------------------------------------------
(* vocabulary of the properties *)

\* the file the script reads in this session
Loaded == IF uploaded_file.status = "ok" THEN uploaded_file ELSE default_csv

\* the sections that run once prob_recuperacao is computed
AfterScoring == {"filter", "kpis", "charts", "table", "done"}

\* the sections that run once df_filtrado is computed
AfterFilter == {"kpis", "charts", "table", "done"}

InUnitInterval(x) == IsFinite(x) /\ 0 <= x[1] /\ x[1] <= x[2]

Present(x) == ~IsNaN(x)

\* a row without the columns that are not in cols
Project(row, cols) == [c \in cols |-> row[c]]

\* the rows of df that the selected range keeps
Kept == {i \in 1..Len(df) :
            /\ Present(df[i]["score_credito"])
            /\ score_range[1] * df[i]["score_credito"][2] <= df[i]["score_credito"][1]
            /\ df[i]["score_credito"][1] <= score_range[2] * df[i]["score_credito"][2]}

\* the k-th of them, in the order of df
KthKept(k) == CHOOSE i \in Kept : Cardinality({j \in Kept : j <= i}) = k

----------------------------------------------------------------------------
(* C1 *)

----------------------------------------------------------------------------
(* C2 *)

\* C2: when the loaded table lacks a required column, the run names a
\* missing column in an error and stops after validation: the probability
\* is not computed, no range is selected, no filter applied, and no KPI,
\* chart or table is put on the page.
C2_MissingColumnHalts ==
    (Loaded.status = "ok" /\ ~(AllRequired \subseteq Loaded.cols)) =>
        /\ pc \in {"load", "validate", "stopped"}
        /\ pc = "stopped" =>
              /\ "error" \in screen
              /\ erro \in AllRequired \ Loaded.cols
        /\ pc # "load" => df = Loaded.rows /\ columns = Loaded.cols
        /\ Derived \notin columns
        /\ IsNaN(max_dias)
        /\ score_range = NoValue
        /\ df_filtrado = <<>>
        /\ divida_por_faixa = <<>>
        /\ screen \subseteq {"error"}

\* the run stopped on a table without valor_divida
C2_Witness ==
    /\ pc = "stopped"
    /\ Loaded.cols = {"score_credito", "dias_atraso"}
    /\ Len(Loaded.rows) > 0
    /\ erro = "valor_divida"

----------------------------------------------------------------------------
(* C3 *)

\* C3 as stated: the divisor max_dias is never zero and never undefined; it
\* is max(dias_atraso), or 1 when that maximum is 0 or absent; and when every
\* dias_atraso is 0 each row gets clamp(score_credito / 1000, 0, 1).
C3_MaxDiasNeverZeroNorUndefined ==
    pc \in AfterScoring =>
        LET dias == {df[i]["dias_atraso"] : i \in 1..Len(df)} \ {NaN}
            top  == {d \in dias : \A e \in dias : Le(e, d)}
        IN  /\ max_dias # Num(0)
            /\ Present(max_dias)
            /\ IF top = {} \/ top = {Num(0)} THEN max_dias = Num(1)
               ELSE max_dias \in top
            /\ (\A i \in 1..Len(df) : df[i]["dias_atraso"] = Num(0)) =>
                  \A i \in 1..Len(df) :
                      Present(df[i]["score_credito"]) =>
                          df[i][Derived] =
                              Clip(Div(df[i]["score_credito"], Num(1000)), Num(0), Num(1))

----------------------------------------------------------------------------
(* C4 *)

\* C4: the filtered table holds exactly the rows of df with
\* low <= score_credito <= high, both ends included, each once and in the
\* order of df.
C4_FilterKeepsExactlyTheRange ==
    pc \in AfterFilter =>
        /\ score_range[1] <= score_range[2]
        /\ Len(df_filtrado) = Cardinality(Kept)
        /\ \A k \in 1..Len(df_filtrado) :
              Project(df_filtrado[k], columns) = df[KthKept(k)]

\* the sample with the range (250, 400): the second, third and sixth rows
\* are kept, in that order
C4_Witness ==
    /\ pc = "kpis"
    /\ Len(df) = 6
    /\ score_range = <<250, 400>>
    /\ Column(df_filtrado, "score_credito") = <<Num(400), Num(300), Num(250)>>

----------------------------------------------------------------------------
(* C5 *)

\* C5 as stated: for a non-empty filtered table the band totals add up to
\* the debt of the filtered rows with 0 <= score_credito <= 1000, both ends
\* included.
C5_BandTotalsCoverZeroToThousand ==
    (pc \in {"table", "done"} /\ df_filtrado # <<>>) =>
        Sum(Column(divida_por_faixa, "valor_divida")) =
            Sum(Column(SelectSeq(df_filtrado, LAMBDA row :
                           /\ Le(Num(0), row["score_credito"])
                           /\ Le(row["score_credito"], Num(1000))),
                       "valor_divida"))

----------------------------------------------------------------------------
(* C6 *)

\* C6 as stated: with no upload, when the default dataset cannot be located
\* or cannot be read the run does not fail: it goes on with the 6-row
\* sample and a warning.
C6_DefaultUnavailableFallsBack ==
    (uploaded_file.status = "none" /\ default_csv.status \in {"missing", "unreadable"}) =>
        /\ pc \notin {"crashed", "stopped"}
        /\ pc # "load" =>
              /\ "warning" \in screen
              /\ Len(df) = 6
              /\ \A i \in 1..Len(df) : Project(df[i], AllRequired) = SampleData[i]

----------------------------------------------------------------------------
(* C7 *)

\* C7: when the selected range matches no row the run goes on to the end:
\* the filtered table is empty, the customer count is 0, the mean debt is
\* NaN, the notice is shown in place of the charts, and the table is shown.
C7_EmptySelectionIsNotAnError ==
    (pc \in AfterFilter /\ Kept = {}) =>
        /\ df_filtrado = <<>>
        /\ pc # "done" => ENABLED (KPIs \/ Graficos \/ Tabela)
        /\ pc \in {"charts", "table", "done"} =>
              /\ total_clientes = 0
              /\ IsNaN(divida_media)
              /\ clientes_recuperaveis = 0
              /\ "kpis" \in screen
        /\ pc \in {"table", "done"} =>
              /\ "info" \in screen
              /\ "histogram" \notin screen
              /\ "pie" \notin screen
              /\ divida_por_faixa = <<>>
        /\ pc = "done" => "dataframe" \in screen

\* a run that ended with a range between the scores of a table that has rows
C7_Witness ==
    /\ pc = "done"
    /\ df # <<>>
    /\ score_range = <<400, 400>>
    /\ df_filtrado = <<>>
    /\ screen = {"kpis", "info", "dataframe"}

----------------------------------------------------------------------------
(* C8 *)

\* C8 as stated: scoring appends exactly one field and leaves the three
\* required fields of every row as they were; and in every later section of
\* every run df is as the first scoring left it.  A table that already has a
\* prob_recuperacao column refutes "appends": the column is overwritten.
C8_ScoringAppendsExactlyOneField ==
    pc \in AfterScoring =>
        LET source == IF Loaded.status = "ok" THEN Loaded
                      ELSE File("ok", AllRequired, SampleData)
        IN  /\ Cardinality(columns) = Cardinality(source.cols) + 1
            /\ columns = source.cols \cup {Derived}
            /\ Len(df) = Len(source.rows)
            /\ \A i \in 1..Len(df) :
                  Project(df[i], AllRequired) = Project(source.rows[i], AllRequired)
            /\ <<df, columns>> = df_scored

\* C8 amended: scoring sets the field prob_recuperacao, appending it when
\* the table lacks it and overwriting it when the table already has a
\* column of that name, and leaves every other field of every row as it was;
\* and in every later section of every run, the band assignment on the
\* filtered table included, df has the rows, columns and values that the
\* first scoring left.
C8_ScoringSetsOneFieldAndDfIsKept ==
    pc \in AfterScoring =>
        LET source == IF Loaded.status = "ok" THEN Loaded
                      ELSE File("ok", AllRequired, SampleData)
        IN  /\ columns = source.cols \cup {Derived}
            /\ Band \notin columns
            /\ Len(df) = Len(source.rows)
            /\ \A i \in 1..Len(df) :
                  /\ DOMAIN df[i] = columns
                  /\ Project(df[i], source.cols \ {Derived}) =
                         Project(source.rows[i], source.cols \ {Derived})
            /\ <<df, columns>> = df_scored

\* a rerun after a filter change, with the bands assigned on the filtered table
C8_Witness ==
    /\ pc = "done"
    /\ widget # NoValue
    /\ Band \in columns_filtrado
    /\ Len(df_filtrado) > 0
    /\ Len(df_filtrado) < Len(df)
    /\ <<df, columns>> = df_scored

----------------------------------------------------------------------------
(* C9 *)

\* C9: the recoverable-customers KPI is the number of filtered rows with
\* prob_recuperacao >= 0.6, the threshold included, the probability being
\* the one computed with max_dias over the whole dataset; for the three
\* customers of the example and the full range it is 1.
C9_RecoverableCountsFilteredRowsAtThreshold ==
    pc \in {"charts", "table", "done"} =>
        /\ clientes_recuperaveis =
              Cardinality({k \in 1..Len(df_filtrado) :
                  /\ IsFinite(df_filtrado[k][Derived])
                  /\ 10 * df_filtrado[k][Derived][1] >= 6 * df_filtrado[k][Derived][2]})
        /\ \A k \in 1..Len(df_filtrado) :
              df_filtrado[k][Derived] =
                  Prob(df_filtrado[k], MaxDias(df_scored[1]))
        /\ (Loaded.status = "ok" /\ Loaded.rows = ExampleData /\ score_range = slider_domain) =>
              clientes_recuperaveis = 1

\* the example, the full range selected: the KPI is 1
C9_Witness ==
    /\ pc = "done"
    /\ default_csv.rows = ExampleData
    /\ uploaded_file.status = "none"
    /\ score_range = <<250, 850>>
    /\ Len(df_filtrado) = 3
    /\ clientes_recuperaveis = 1

\* a row whose probability is the threshold itself is counted
C9_WitnessAtThreshold ==
    /\ pc = "done"
    /\ \E k \in 1..Len(df_filtrado) : df_filtrado[k][Derived] = Rat(3, 5)
    /\ clientes_recuperaveis >= 1

----------------------------------------------------------------------------
(* C10 *)

\* C10 as stated: the slider's domain and its first value are
\* (int(min score), int(max score)) over the whole dataset, and with that
\* first value no row of a dataset with numeric scores is filtered out.
C10_InitialSelectionKeepsEveryRow ==
    (pc \in AfterFilter /\ widget = NoValue
        /\ \A i \in 1..Len(df) : Present(df[i]["score_credito"])) =>
        /\ slider_domain = <<IntOf(Min(Column(df, "score_credito"))),
                             IntOf(Max(Column(df, "score_credito")))>>
        /\ score_range = slider_domain
        /\ Len(df_filtrado) = Len(df)

=============================================================================
